---- MODULE Spec2Model ----
(***************************************************************************)
(* Model of the block primitive of the onft crate (src/src/block.rs):      *)
(* Block::new, Block::verify, Block::default, Ownership::to_raw_public     *)
(* and the two Serialize implementations.                                  *)
(*                                                                         *)
(* block.rs delegates all cryptography to crate::Hash (hash.rs), which is  *)
(* not part of the sources at hand.  The engine (Hash_new, Hash_verify,    *)
(* Hash_default, SIG_LEN, HASH_LEN) and PROTO_VERSION are therefore        *)
(* modelled from the specification: a deterministic signature over         *)
(* previous_hash || data under a keypair that is freshly minted by every   *)
(* derivation.                                                             *)
(***************************************************************************)
EXTENDS Integers, Sequences, FiniteSets

\* ------------------------------------------------------------------ bounds
MaxLen == 1         \* longest payload
MaxBlocks == 2      \* keypairs generated (successful Block::new calls) in a run

\* -------------------------------------------------------- program constants
SIG_LEN == 64       \* Hash::SIG_LEN, size of Block.signature
HASH_LEN == 4       \* size of a Hash
PROTO_VERSION == 1  \* protocol version tag written as field "pver"

\* Two byte values stand for u8: bytes are only stored, copied and compared.
Byte == {0, 1}

RECURSIVE SeqsOfLen(_)
SeqsOfLen(n) ==
  IF n = 0 THEN {<<>>}
  ELSE {Append(s, b) : s \in SeqsOfLen(n - 1), b \in Byte}

RECURSIVE SeqsUpTo(_)
SeqsUpTo(n) == IF n = 0 THEN {<<>>} ELSE SeqsUpTo(n - 1) \cup SeqsOfLen(n)

Payloads == SeqsUpTo(MaxLen)

Zeros(n) == [i \in 1..n |-> 0]

RECURSIVE SumSeq(_)
SumSeq(s) == IF s = <<>> THEN 0 ELSE Head(s) + SumSeq(Tail(s))

\* ---------------------------------------------------------------- key material
\* openssl PKey: an identity and an algorithm.  "ed25519" is the algorithm of
\* the engine's keys; "rsa" stands for key material the engine cannot use and
\* that has no raw public form.
NoKey == [id |-> 0, alg |-> "none"]
EngineKey(n) == [id |-> n, alg |-> "ed25519"]
ForeignId == MaxBlocks + 1
ForeignKeys == {[id |-> ForeignId, alg |-> "ed25519"], [id |-> ForeignId, alg |-> "rsa"]}

\* PKey::raw_public_key: the raw public bytes, or an error stack for
\* algorithms without a raw form.
raw_public_key(k) ==
  IF k.alg = "ed25519"
  THEN [kind |-> "Ok", err |-> "", bytes |-> <<k.id>>]
  ELSE [kind |-> "Err", err |-> "ErrorStack", bytes |-> <<>>]

\* The raw private bytes of a key (never produced by block.rs).
raw_private_key(k) == <<k.id + 128>>

\* ---------------------------------------------------------------- Ownership
Genesis == [tag |-> "Genesis", pkey |-> NoKey]
Them(k) == [tag |-> "Them", pkey |-> k]
Us(k) == [tag |-> "Us", pkey |-> k]

\* impl From<PKey<Public>> for Ownership
From_Public(k) == Them(k)

\* impl From<PKey<Private>> for Ownership
From_Private(k) == Us(k)

\* ------------------------------------------------------ Hash/Signature engine
\* Hash::default(): the zero-valued hash.
Hash_default == Zeros(HASH_LEN)

\* The signed message: previous_hash || data.
Message(previous_hash, data) == previous_hash \o data

\* The signature of msg under key k: deterministic, SIG_LEN bytes, different
\* for different (key, message) pairs and never all-zero.
Sign(k, msg) ==
  <<k.id, Len(msg)>> \o msg \o Zeros(SIG_LEN - 2 - Len(msg))

\* The content hash: a digest of previous_hash || data, HASH_LEN bytes that
\* are never all zero.
Digest(msg) == [i \in 1..HASH_LEN |-> (SumSeq(msg) + Len(msg) + i) % 2]

\* The hashes a caller can hold: the genesis hash and hashes of blocks.
Hashes ==
  {Hash_default} \cup {Digest(Message(Hash_default, d)) : d \in Payloads}

\* Hash::new(previous_hash, data): mints key number n (or fails when the
\* provider cannot generate a key), returns (hash, signature, keypair).
Hash_new(previous_hash, data, n, fails) ==
  IF fails
  THEN [kind |-> "Err", err |-> "KeyGen", hash |-> Hash_default,
        signature |-> Zeros(SIG_LEN), pkey |-> NoKey]
  ELSE [kind |-> "Ok", err |-> "",
        hash |-> Digest(Message(previous_hash, data)),
        signature |-> Sign(EngineKey(n), Message(previous_hash, data)),
        pkey |-> EngineKey(n)]

\* Hash::verify(previous_hash, signature, data, pkey): an error for key
\* material the verifier cannot use, otherwise whether the signature is the
\* one of previous_hash || data under pkey.
Hash_verify(self, previous_hash, signature, data, pkey) ==
  IF pkey.alg # "ed25519"
  THEN [kind |-> "Err", err |-> "Verifier", bool |-> FALSE]
  ELSE [kind |-> "Ok", err |-> "",
        bool |-> (signature = Sign(pkey, Message(previous_hash, data)))]

\* -------------------------------------------------------------------- Block
NoBlock == [hash |-> Hash_default, ownership |-> Genesis,
            signature |-> Zeros(SIG_LEN), data |-> <<>>]

\* Block::new with the ownership built from the public half of the key.
Block_new_Them(previous_hash, data, n, fails) ==
  LET r == Hash_new(previous_hash, data, n, fails) IN
  IF r.kind = "Err"
  THEN [kind |-> "Err", err |-> r.err, block |-> NoBlock]
  ELSE [kind |-> "Ok", err |-> "",
        block |-> [hash |-> r.hash,
                   ownership |-> From_Public(r.pkey),
                   signature |-> r.signature,
                   data |-> data]]

\* Block::new that leaves the signature array zeroed.
Block_new_ZeroSig(previous_hash, data, n, fails) ==
  LET r == Hash_new(previous_hash, data, n, fails) IN
  IF r.kind = "Err"
  THEN [kind |-> "Err", err |-> r.err, block |-> NoBlock]
  ELSE [kind |-> "Ok", err |-> "",
        block |-> [hash |-> r.hash,
                   ownership |-> From_Private(r.pkey),
                   signature |-> Zeros(SIG_LEN),
                   data |-> data]]

\* Block::new
Block_new(previous_hash, data, n, fails) ==
  LET r == Hash_new(previous_hash, data, n, fails) IN
  IF r.kind = "Err"
  THEN [kind |-> "Err", err |-> r.err, block |-> NoBlock]
  ELSE [kind |-> "Ok", err |-> "",
        block |-> [hash |-> r.hash,
                   ownership |-> From_Private(r.pkey),
                   signature |-> r.signature,
                   data |-> data]]

\* Block::verify that hands the block's own hash to the engine as predecessor.
Block_verify_SelfHash(self, previous_hash) ==
  CASE self.ownership.tag \in {"Them", "Us"} ->
         Hash_verify(self.hash, self.hash, self.signature, self.data,
                     self.ownership.pkey)
    [] self.ownership.tag = "Genesis" ->
         [kind |-> "Err", err |-> "GenesisIsNotKey", bool |-> FALSE]

\* Block::verify that checks against the genesis hash instead of the
\* supplied predecessor.
Block_verify_DefaultPrev(self, previous_hash) ==
  CASE self.ownership.tag \in {"Them", "Us"} ->
         Hash_verify(self.hash, Hash_default, self.signature, self.data,
                     self.ownership.pkey)
    [] self.ownership.tag = "Genesis" ->
         [kind |-> "Err", err |-> "GenesisIsNotKey", bool |-> FALSE]

\* Block::verify that turns a failed check into an error.
Block_verify_FalseIsErr(self, previous_hash) ==
  CASE self.ownership.tag \in {"Them", "Us"} ->
         LET r == Hash_verify(self.hash, previous_hash, self.signature,
                              self.data, self.ownership.pkey) IN
         IF r.kind = "Ok" /\ ~r.bool
         THEN [kind |-> "Err", err |-> "Verifier", bool |-> FALSE]
         ELSE r
    [] self.ownership.tag = "Genesis" ->
         [kind |-> "Err", err |-> "GenesisIsNotKey", bool |-> FALSE]

\* Block::verify that answers false for a genesis block.
Block_verify_GenesisFalse(self, previous_hash) ==
  CASE self.ownership.tag \in {"Them", "Us"} ->
         Hash_verify(self.hash, previous_hash, self.signature, self.data,
                     self.ownership.pkey)
    [] self.ownership.tag = "Genesis" ->
         [kind |-> "Ok", err |-> "", bool |-> FALSE]

\* Block::verify that treats a public-key-only block like a genesis block.
Block_verify_ThemIsErr(self, previous_hash) ==
  CASE self.ownership.tag = "Us" ->
         Hash_verify(self.hash, previous_hash, self.signature, self.data,
                     self.ownership.pkey)
    [] self.ownership.tag \in {"Them", "Genesis"} ->
         [kind |-> "Err", err |-> "GenesisIsNotKey", bool |-> FALSE]

\* Block::verify
Block_verify(self, previous_hash) ==
  CASE self.ownership.tag = "Them" ->
         Hash_verify(self.hash, previous_hash, self.signature, self.data,
                     self.ownership.pkey)
    [] self.ownership.tag = "Us" ->
         Hash_verify(self.hash, previous_hash, self.signature, self.data,
                     self.ownership.pkey)
    [] self.ownership.tag = "Genesis" ->
         [kind |-> "Err", err |-> "GenesisIsNotKey", bool |-> FALSE]

\* A genesis block whose signature array is not zeroed.
Block_default_OneSig ==
  [hash |-> Hash_default, ownership |-> Genesis,
   signature |-> [i \in 1..SIG_LEN |-> 1], data |-> <<>>]

\* impl Default for Block
Block_default ==
  [hash |-> Hash_default, ownership |-> Genesis,
   signature |-> Zeros(SIG_LEN), data |-> <<>>]

\* Ownership::to_raw_public that exports only for the private-key variant.
to_raw_public_UsOnly(self) ==
  CASE self.tag \in {"Genesis", "Them"} ->
         [kind |-> "Err", err |-> "GenesisIsNotKey", bytes |-> <<>>]
    [] self.tag = "Us" ->
         LET r == raw_public_key(self.pkey) IN
         IF r.kind = "Err" THEN [r EXCEPT !.err = "KeyPublic"] ELSE r

\* Ownership::to_raw_public
to_raw_public(self) ==
  CASE self.tag = "Genesis" ->
         [kind |-> "Err", err |-> "GenesisIsNotKey", bytes |-> <<>>]
    [] self.tag = "Them" ->
         LET r == raw_public_key(self.pkey) IN
         IF r.kind = "Err" THEN [r EXCEPT !.err = "KeyPublic"] ELSE r
    [] self.tag = "Us" ->
         LET r == raw_public_key(self.pkey) IN
         IF r.kind = "Err" THEN [r EXCEPT !.err = "KeyPublic"] ELSE r

\* Serialize for Ownership that writes the private key of an owned block.
Serialize_Ownership_Private(self) ==
  LET r == to_raw_public(self) IN
  IF r.kind = "Err"
  THEN [kind |-> "Err", err |-> "custom:" \o r.err, bytes |-> <<>>]
  ELSE [kind |-> "Ok", err |-> "",
        bytes |-> IF self.tag = "Us" THEN raw_private_key(self.pkey)
                  ELSE r.bytes]

\* impl Serialize for Ownership: serialize_bytes of the raw public key, or a
\* custom serializer error carrying the message of the export error.
Serialize_Ownership(self) ==
  LET r == to_raw_public(self) IN
  IF r.kind = "Err"
  THEN [kind |-> "Err", err |-> "custom:" \o r.err, bytes |-> <<>>]
  ELSE [kind |-> "Ok", err |-> "", bytes |-> r.bytes]

Field(name, bytes) == [name |-> name, bytes |-> bytes]

\* impl Serialize for Block: the fields written so far, whether the struct
\* was ended, and the error that stopped it.
Serialize_Block(self) ==
  LET head == <<Field("pver", <<PROTO_VERSION>>), Field("hash", self.hash)>>
      o == Serialize_Ownership(self.ownership)
  IN IF o.kind = "Err"
     THEN [kind |-> "Err", err |-> o.err, fields |-> head, ended |-> FALSE]
     ELSE [kind |-> "Ok", err |-> "",
           fields |-> head \o <<Field("ownership", o.bytes),
                                Field("data", self.data)>>,
           ended |-> TRUE]

\* ------------------------------------------------------------------- state
VARIABLES
  minted,   \* number of keypairs the provider has generated
  made,     \* the successful Block::new calls whose blocks the caller keeps:
            \* [previous_hash, data, block]
  cur,      \* the block the caller has at hand
  src,      \* index in made of the call that built cur, 0 for a genesis block
  ret       \* the last operation and what it returned

vars == <<minted, made, cur, src, ret>>

NoRet == [op |-> "none", h |-> Hash_default, kind |-> "Ok", err |-> "",
          block |-> FALSE, bool |-> FALSE, bytes |-> <<>>,
          fields |-> <<>>, ended |-> FALSE]

Init ==
  /\ minted = 0
  /\ made = <<>>
  /\ cur = Block_default
  /\ src = 0
  /\ ret = [NoRet EXCEPT !.op = "default", !.block = TRUE]

Call(h, d, b) == [previous_hash |-> h, data |-> d, block |-> b]

\* let b = Block::new(&h, d)?  for any hash h; the caller keeps b alone
New ==
  \E h \in Hashes, d \in Payloads, fails \in BOOLEAN :
    LET r == Block_new(h, d, minted + 1, fails) IN
    /\ minted < MaxBlocks
    /\ ret' = [NoRet EXCEPT !.op = "new", !.kind = r.kind, !.err = r.err,
                            !.block = (r.kind = "Ok")]
    /\ IF r.kind = "Ok"
       THEN /\ minted' = minted + 1
            /\ made' = <<Call(h, d, r.block)>>
            /\ cur' = r.block
            /\ src' = 1
       ELSE UNCHANGED <<minted, made, cur, src>>

\* The hashes at hand when a chain is built: the genesis hash and the hashes
\* of the blocks built so far.
ChainHashes == {Hash_default} \cup {made[i].block.hash : i \in 1..Len(made)}

\* let b = Block::new(&h, d)?  on a hash of the chain; the caller keeps every
\* block
Extend ==
  \E h \in ChainHashes, d \in Payloads, fails \in BOOLEAN :
    LET r == Block_new(h, d, minted + 1, fails) IN
    /\ minted < MaxBlocks
    /\ ret' = [NoRet EXCEPT !.op = "new", !.kind = r.kind, !.err = r.err,
                            !.block = (r.kind = "Ok")]
    /\ IF r.kind = "Ok"
       THEN /\ minted' = minted + 1
            /\ made' = Append(made, Call(h, d, r.block))
            /\ cur' = r.block
            /\ src' = Len(made) + 1
       ELSE UNCHANGED <<minted, made, cur, src>>

\* let b = Block::default()
Default ==
  /\ cur' = Block_default
  /\ src' = 0
  /\ ret' = [NoRet EXCEPT !.op = "default", !.block = TRUE]
  /\ UNCHANGED <<minted, made>>

\* the caller takes up a block of the chain
Take ==
  \E i \in 1..Len(made) :
    /\ i # src
    /\ cur' = made[i].block
    /\ src' = i
    /\ ret' = NoRet
    /\ UNCHANGED <<minted, made>>

\* b.data = d  (pub field)
SetData ==
  \E d \in Payloads :
    /\ d # cur.data
    /\ cur' = [cur EXCEPT !.data = d]
    /\ ret' = NoRet
    /\ UNCHANGED <<minted, made, src>>

\* The ownerships a caller can put in place of the current one: the genesis
\* marker, the public half of the key at hand, or a public key from elsewhere.
OwnershipChoices ==
  {Genesis}
    \cup {From_Public(k) : k \in ForeignKeys}
    \cup (IF cur.ownership.tag = "Genesis" THEN {}
          ELSE {From_Public(cur.ownership.pkey)})

\* b.ownership = o  (pub field)
SetOwnership ==
  \E o \in OwnershipChoices :
    /\ o # cur.ownership
    /\ cur' = [cur EXCEPT !.ownership = o]
    /\ ret' = NoRet
    /\ UNCHANGED <<minted, made, src>>

\* b.verify(&h)
Verify ==
  \E h \in Hashes :
    LET r == Block_verify(cur, h) IN
    /\ ret' = [NoRet EXCEPT !.op = "verify", !.h = h, !.kind = r.kind,
                            !.err = r.err, !.bool = r.bool]
    /\ UNCHANGED <<minted, made, cur, src>>

\* b.ownership.to_raw_public()
ToRawPublic ==
  LET r == to_raw_public(cur.ownership) IN
  /\ ret' = [NoRet EXCEPT !.op = "to_raw_public", !.kind = r.kind,
                          !.err = r.err, !.bytes = r.bytes]
  /\ UNCHANGED <<minted, made, cur, src>>

\* b.serialize(serializer)
Serialize ==
  LET r == Serialize_Block(cur) IN
  /\ ret' = [NoRet EXCEPT !.op = "serialize", !.kind = r.kind, !.err = r.err,
                          !.fields = r.fields, !.ended = r.ended]
  /\ UNCHANGED <<minted, made, cur, src>>

\* One block at hand: built on any hash, inspected, exported, and changed
\* through its public fields.
Next ==
  \/ New
  \/ Default
  \/ SetData
  \/ SetOwnership
  \/ Verify
  \/ ToRawPublic
  \/ Serialize

Spec == Init /\ [][Next]_vars

\* A chain under construction: every block is built on the genesis hash or on
\* the hash of an earlier block, and all of them are kept.
NextChain ==
  \/ Extend
  \/ Default
  \/ Take
  \/ Verify

SpecChain == Init /\ [][NextChain]_vars

\* ------------------------------------------------------------------ claims
Keyed(b) == b.ownership.tag \in {"Them", "Us"}

\* cur is the block of call number src of Block::new, as constructed
AsBuilt == src > 0 /\ cur = made[src].block

\* cur is that block with nothing but its payload replaced
DataTampered ==
  /\ src > 0
  /\ cur.data # made[src].data
  /\ cur = [made[src].block EXCEPT !.data = cur.data]

\* cur is that block with its ownership in the public-key-only form
MadePublic ==
  /\ src > 0
  /\ cur = [made[src].block EXCEPT
              !.ownership = From_Public(made[src].block.ownership.pkey)]

\* C1: a block built by Block::new(h, d) and verified against the same h
\* gives Ok(true), for every h (the genesis hash included) and every d (the
\* empty payload included).
C1_RoundTrip ==
  (ret.op = "verify" /\ AsBuilt /\ ret.h = made[src].previous_hash)
    => (ret.kind = "Ok" /\ ret.bool)

C1_Witness ==
  /\ ret.op = "verify" /\ AsBuilt
  /\ ret.h = made[src].previous_hash
  /\ ret.h = Hash_default
  /\ cur.data = <<>>
  /\ ret.kind = "Ok" /\ ret.bool

\* C2: a block built by Block::new(h1, d) and verified against any h2 # h1
\* gives Ok(false).
C2_TamperPredecessor ==
  (ret.op = "verify" /\ AsBuilt /\ ret.h # made[src].previous_hash)
    => (ret.kind = "Ok" /\ ~ret.bool)

C2_Witness ==
  /\ ret.op = "verify" /\ AsBuilt
  /\ ret.h # made[src].previous_hash
  /\ ret.kind = "Ok" /\ ~ret.bool

\* C3: a block built by Block::new(h, d) whose data was replaced by some
\* d' # d, everything else as constructed, verified against h gives
\* Ok(false) and no error.
C3_TamperPayload ==
  (ret.op = "verify" /\ DataTampered /\ ret.h = made[src].previous_hash)
    => (ret.kind = "Ok" /\ ~ret.bool)

C3_Witness ==
  /\ ret.op = "verify" /\ DataTampered
  /\ ret.h = made[src].previous_hash
  /\ ret.kind = "Ok" /\ ~ret.bool

\* C4: verify on a block whose ownership is Genesis (Block::default() in
\* particular) gives Err(GenesisIsNotKey), whatever the hash, signature and
\* data of the block and the supplied predecessor hash are.
C4_GenesisVerifyFails ==
  (ret.op = "verify" /\ cur.ownership.tag = "Genesis")
    => (ret.kind = "Err" /\ ret.err = "GenesisIsNotKey")

C4_Witness ==
  /\ ret.op = "verify"
  /\ cur = Block_default
  /\ ret.h # Hash_default
  /\ ret.kind = "Err" /\ ret.err = "GenesisIsNotKey"

\* C5 as claimed: to_raw_public gives non-empty bytes for every keyed
\* ownership and Err(GenesisIsNotKey) for Genesis.
C5_Original ==
  ret.op = "to_raw_public" =>
    IF Keyed(cur)
    THEN ret.kind = "Ok" /\ ret.bytes # <<>>
    ELSE ret.kind = "Err" /\ ret.err = "GenesisIsNotKey" /\ ret.bytes = <<>>

\* C5 as amended: for a keyed ownership to_raw_public gives what the key's
\* raw export gives: the non-empty raw public bytes when the export
\* succeeds (always so for a key minted by Block::new) and Err(KeyPublic),
\* never Err(GenesisIsNotKey), when it fails; for Genesis it gives
\* Err(GenesisIsNotKey) and no bytes.
C5_ExportSymmetry ==
  ret.op = "to_raw_public" =>
    IF Keyed(cur)
    THEN LET e == raw_public_key(cur.ownership.pkey) IN
         /\ e.kind = "Ok" =>
              ret.kind = "Ok" /\ ret.bytes = e.bytes /\ ret.bytes # <<>>
         /\ e.kind = "Err" =>
              ret.kind = "Err" /\ ret.err = "KeyPublic" /\ ret.bytes = <<>>
         /\ (src > 0 /\ cur.ownership.pkey = made[src].block.ownership.pkey)
              => ret.kind = "Ok"
    ELSE ret.kind = "Err" /\ ret.err = "GenesisIsNotKey" /\ ret.bytes = <<>>

C5_Witness ==
  /\ ret.op = "to_raw_public"
  /\ cur.ownership.tag = "Them"
  /\ ret.kind = "Ok" /\ ret.bytes # <<>>

\* C6: any two blocks built by successful Block::new calls carry different
\* keys and different signatures, also when both calls had the same
\* predecessor hash and the same payload.
C6_KeyUniqueness ==
  \A i, j \in 1..Len(made) :
    i # j =>
      /\ made[i].block.ownership.pkey # made[j].block.ownership.pkey
      /\ raw_public_key(made[i].block.ownership.pkey).bytes
           # raw_public_key(made[j].block.ownership.pkey).bytes
      /\ made[i].block.signature # made[j].block.signature

C6_Witness ==
  /\ Len(made) >= 2
  /\ made[1].previous_hash = made[2].previous_hash
  /\ made[1].data = made[2].data
  /\ made[1].block.signature # made[2].block.signature

\* C7: Block::default() returns, whenever it is called, the block with the
\* default hash, ownership Genesis, SIG_LEN zero bytes of signature and an
\* empty payload, and does not fail.
C7_GenesisCanonical ==
  ret.op = "default" =>
    /\ ret.kind = "Ok" /\ ret.block
    /\ cur.hash = Hash_default
    /\ cur.ownership.tag = "Genesis"
    /\ Len(cur.signature) = SIG_LEN
    /\ \A i \in 1..SIG_LEN : cur.signature[i] = 0
    /\ cur.data = <<>>

C7_Witness ==
  /\ ret.op = "default"
  /\ minted >= 2
  /\ cur.ownership.tag = "Genesis"
  /\ cur.data = <<>>

\* C8: serializing a block succeeds exactly when to_raw_public of its
\* ownership does, and then writes the fields pver, hash, ownership, data
\* with ownership being those raw public bytes; for a Genesis ownership it
\* fails with a serializer error before the ownership field and never ends
\* the structure; no field ever holds the private key.
C8_SerializeFollowsOwnership ==
  ret.op = "serialize" =>
    LET e == to_raw_public(cur.ownership) IN
    /\ e.kind = "Ok" =>
         /\ ret.kind = "Ok" /\ ret.ended
         /\ ret.fields = <<Field("pver", <<PROTO_VERSION>>),
                           Field("hash", cur.hash),
                           Field("ownership", e.bytes),
                           Field("data", cur.data)>>
    /\ e.kind = "Err" => (ret.kind = "Err" /\ ~ret.ended)
    /\ cur.ownership.tag = "Genesis" =>
         /\ ret.kind = "Err" /\ ~ret.ended
         /\ \A i \in 1..Len(ret.fields) : ret.fields[i].name # "ownership"
    /\ Keyed(cur) =>
         \A i \in 1..Len(ret.fields) :
           ret.fields[i].bytes # raw_private_key(cur.ownership.pkey)

C8_Witness ==
  /\ ret.op = "serialize"
  /\ cur.ownership.tag = "Us"
  /\ ret.kind = "Ok" /\ ret.ended
  /\ Len(ret.fields) = 4

\* C9: a successful Block::new(h, d) returns a block of ownership Us that
\* stores d and the hash, signature and key the engine derived for (h, d);
\* when the derivation fails Block::new returns that error and no block.
C9_NewPopulates ==
  ret.op = "new" =>
    IF ret.kind = "Ok"
    THEN LET r == Hash_new(made[src].previous_hash, made[src].data, minted, FALSE) IN
         /\ ret.block /\ AsBuilt
         /\ cur.ownership.tag = "Us"
         /\ cur.ownership.pkey = r.pkey
         /\ cur.data = made[src].data
         /\ cur.hash = r.hash
         /\ cur.signature = r.signature
    ELSE /\ ret.err = "KeyGen"
         /\ ~ret.block

C9_Witness ==
  /\ ret.op = "new" /\ ret.kind = "Ok"
  /\ cur.data # <<>>
  /\ cur.ownership.tag = "Us"
  /\ cur.data = made[src].data

\* C10: a block holding a key as Us(private) and the otherwise identical
\* block holding it as Them(public) get the same result from verify for
\* every predecessor hash; a block built by Block::new(h, d) whose ownership
\* was replaced by the public-key-only form still verifies Ok(true)
\* against h.
C10_VariantIndependent ==
  /\ Keyed(cur) =>
       \A h \in Hashes :
         Block_verify([cur EXCEPT !.ownership = From_Private(cur.ownership.pkey)], h)
           = Block_verify([cur EXCEPT !.ownership = From_Public(cur.ownership.pkey)], h)
  /\ (ret.op = "verify" /\ MadePublic /\ ret.h = made[src].previous_hash)
       => (ret.kind = "Ok" /\ ret.bool)

C10_Witness ==
  /\ ret.op = "verify" /\ MadePublic
  /\ cur.ownership.tag = "Them"
  /\ ret.h = made[src].previous_hash
  /\ ret.kind = "Ok" /\ ret.bool

====
